---- MODULE Spec2Model ----
(***************************************************************************)
(* Model of perplexity/client_pool.py: ClientWrapper (one credential and   *)
(* its health fields) and ClientPool (registry, rotation order, cursor and *)
(* the operations that run under the pool lock).  Every pool method holds  *)
(* self._lock for its whole body, so each method is one atomic action.     *)
(* time.time() is the variable now; it is read once per operation and it   *)
(* advances between operations (action Tick).                              *)
(***************************************************************************)
EXTENDS Integers, Sequences, FiniteSets, TLC

VARIABLES clients, client_keys, rotation_order, index, now, ret, run,
          lock, pc, req

vars == <<clients, client_keys, rotation_order, index, now, ret, run, lock, pc, req>>

\* the state of the request handlers of the network surface
hvars == <<lock, pc, req>>

(* ------------------------------ bounds -------------------------------- *)
\* mark_failure is not called once the fail_counts of the pool add up to this
MaxFail == 1
\* mark_success is not called once the request_counts of the pool add up to this
MaxReq == 1
\* number of clock steps
MaxStreak == 8
MaxTicks == 1

\* the ids in use
Ids == {"a", "b", "c"}
\* longest token list of a configuration file, and the length of
\* rotation_order from which add_client is no longer called: one entry per id
MaxPool == Cardinality(Ids)
None == "None"

\* Client(cookies): the credential built from the tokens registered for an id
Client(cid) == <<"client", cid>>

(* --------------------------- ClientWrapper ---------------------------- *)
DEFAULT_WEIGHT == 100
MIN_WEIGHT == 10
WEIGHT_DECAY == 10
WEIGHT_RECOVERY == 5
INITIAL_BACKOFF == 60
MAX_BACKOFF == 3600

\* the clock advances in steps of the first backoff
TickStep == INITIAL_BACKOFF
MaxNow == MaxTicks * TickStep

Min2(x, y) == IF x <= y THEN x ELSE y

RECURSIVE Pow2(_)
Pow2(n) == IF n <= 0 THEN 1 ELSE 2 * Pow2(n - 1)

\* ClientWrapper.__init__ (the diagnostic label "state" is never written)
ClientWrapper(client) ==
    [client |-> client, weight |-> DEFAULT_WEIGHT, fail_count |-> 0,
     available_after |-> 0, request_count |-> 0, enabled |-> TRUE]

is_available_ignoring_enabled(w) == now >= w.available_after

is_available(w) == w.enabled /\ now >= w.available_after

backoff_uncapped(fail_count) == INITIAL_BACKOFF * Pow2(fail_count - 1)

backoff(fail_count) == Min2(MAX_BACKOFF, INITIAL_BACKOFF * Pow2(fail_count - 1))

Wrapper_mark_failure(w) ==
    LET fc == w.fail_count + 1
    IN  [w EXCEPT !.fail_count = fc, !.available_after = now + backoff(fc)]

Wrapper_mark_success_keeping_cooldown(w) ==
    [w EXCEPT !.fail_count = 0,
              !.request_count = w.request_count + 1,
              !.weight = IF w.weight < DEFAULT_WEIGHT
                         THEN Min2(DEFAULT_WEIGHT, w.weight + WEIGHT_RECOVERY)
                         ELSE w.weight]

Wrapper_mark_success_unbounded(w) ==
    [w EXCEPT !.fail_count = 0,
              !.available_after = 0,
              !.request_count = w.request_count + 1,
              !.weight = w.weight + WEIGHT_RECOVERY]

Wrapper_mark_success(w) ==
    [w EXCEPT !.fail_count = 0,
              !.available_after = 0,
              !.request_count = w.request_count + 1,
              !.weight = IF w.weight < DEFAULT_WEIGHT
                         THEN Min2(DEFAULT_WEIGHT, w.weight + WEIGHT_RECOVERY)
                         ELSE w.weight]

(* ----------------------------- sequences ------------------------------ *)
Range(s) == {s[i] : i \in 1..Len(s)}

\* list.remove(x): drops the first occurrence
RECURSIVE RemoveFirst(_, _)
RemoveFirst(s, x) ==
    IF s = <<>> THEN <<>>
    ELSE IF Head(s) = x THEN Tail(s)
    ELSE <<Head(s)>> \o RemoveFirst(Tail(s), x)

\* del d[x] on the key order of a dict
DelKey(s, x) == SelectSeq(s, LAMBDA k : k # x)

(* ------------------------------ results ------------------------------- *)
\* what the operation that has just returned gave back.  An administrative
\* method returns {"status": "ok" | "error", "message": ...}; mark_success
\* and mark_failure return nothing.  For get_client: the
\* pair (id, client), the return statement taken, the ids of the list top
\* and the cursor at the call.
Ret(op, status) ==
    [op |-> op, status |-> status, id |-> None, client |-> None,
     branch |-> "", tie |-> {}, start |-> 0]

NoRet == Ret("none", "ok")

\* {"status": "ok", "message": "Client ... removed"}, with the cursor at the call
Removed == [Ret("admin", "ok") EXCEPT !.branch = "removed", !.start = index]

Selected(status, id, client, branch, tie) ==
    [op |-> "get_client", status |-> status, id |-> id,
     client |-> client, branch |-> branch, tie |-> tie, start |-> index]

(* -------------------------- request handlers -------------------------- *)
\* requests of the network surface that may be in progress at one time
Handlers == {"h1", "h2"}

\* a handler's locals before get_client has returned: (client_id, client),
\* whether client.search was called, and the outcome reports made so far
NoReq == [id |-> None, client |-> None, searched |-> FALSE, succ |-> 0, fail |-> 0]

\* no request is in progress and nobody holds the pool's lock
HandlersIdle ==
    /\ lock = None
    /\ pc = [h \in Handlers |-> "idle"]
    /\ req = [h \in Handlers |-> NoReq]

(* ---------------------------- construction ---------------------------- *)
\* _add_client_internal on a pool p = [clients, client_keys, rotation_order]:
\* a dict assignment to an existing key keeps the key's place
AddInternal(p, cid, client) ==
    [clients |-> (cid :> ClientWrapper(client)) @@ p.clients,
     client_keys |-> IF cid \in DOMAIN p.clients THEN p.client_keys
                     ELSE Append(p.client_keys, cid),
     rotation_order |-> Append(p.rotation_order, cid)]

EmptyPool == [clients |-> << >>, client_keys |-> << >>, rotation_order |-> << >>]

\* _load_from_config: one _add_client_internal per token, in file order
RECURSIVE LoadFromConfig(_, _)
LoadFromConfig(p, tokens) ==
    IF tokens = << >> THEN p
    ELSE LoadFromConfig(AddInternal(p, Head(tokens)[1], Head(tokens)[2]), Tail(tokens))

\* the token lists a configuration file can hold; the single-token and the
\* anonymous construction are the one-element lists
Configs == UNION {[1..n -> {<<cid, Client(cid)>> : cid \in Ids}] : n \in 0..MaxPool}

Init ==
    \E tokens \in Configs :
        LET p == LoadFromConfig(EmptyPool, tokens)
        IN  /\ clients = p.clients
            /\ client_keys = p.client_keys
            /\ rotation_order = p.rotation_order
            /\ index = 0
            /\ now = 0
            /\ ret = NoRet
            /\ run = << >>
            /\ HandlersIdle

(* ----------------------------- get_client ----------------------------- *)
\* the list comprehension reads self.clients[cid] for every cid of
\* _rotation_order: KeyError when one of them is not a key
KeyErr == \E i \in 1..Len(rotation_order) : rotation_order[i] \notin DOMAIN clients

\* the wrappers of the list "available", named by their ids, in list order
available == SelectSeq(rotation_order, LAMBDA cid : is_available(clients[cid]))

min_weight(av) ==
    CHOOSE m \in {clients[c].weight : c \in Range(av)} :
        \A c \in Range(av) : clients[c].weight >= m

max_weight(av) ==
    CHOOSE m \in {clients[c].weight : c \in Range(av)} :
        \A c \in Range(av) : clients[c].weight <= m

top(av) == SelectSeq(av, LAMBDA cid : clients[cid].weight = max_weight(av))

Advance2(i, n) == (i + 2) % n

\* self._index = (self._index + 1) % len(self._rotation_order)
Advance(i, n) == (i + 1) % n

RECURSIVE AdvanceBy(_, _, _)
AdvanceBy(i, n, k) == IF k = 0 THEN i ELSE AdvanceBy(Advance(i, n), n, k - 1)

\* the loop iterations (counted from 0) whose cid belongs to top_ids
Hits(top_ids) ==
    LET n == Len(rotation_order)
    IN  {k \in 0..(n - 1) : rotation_order[AdvanceBy(index, n, k) + 1] \in top_ids}

FirstHit(top_ids) == CHOOSE k \in Hits(top_ids) : \A j \in Hits(top_ids) : k <= j

latest ==
    LET m == CHOOSE v \in {clients[c].available_after : c \in DOMAIN clients} :
                 \A c \in DOMAIN clients : clients[c].available_after <= v
        i == CHOOSE j \in 1..Len(client_keys) :
                 /\ clients[client_keys[j]].available_after = m
                 /\ \A h \in 1..(j - 1) : clients[client_keys[h]].available_after # m
    IN  client_keys[i]

\* min(self.clients.values(), key=available_after): the first minimal wrapper
\* in the dict's order
soonest ==
    LET m == CHOOSE v \in {clients[c].available_after : c \in DOMAIN clients} :
                 \A c \in DOMAIN clients : v <= clients[c].available_after
        i == CHOOSE j \in 1..Len(client_keys) :
                 /\ clients[client_keys[j]].available_after = m
                 /\ \A h \in 1..(j - 1) : clients[client_keys[h]].available_after # m
    IN  client_keys[i]

\* consecutive tie-break returns of one unchanged tie set, the latest last
Extend(r) ==
    IF r.branch # "tie" THEN << >>
    ELSE IF ret.op = "get_client" /\ ret.branch = "tie" /\ ret.tie = r.tie
              /\ Len(run) < Cardinality(Ids)
         THEN Append(run, r.id)
         ELSE IF ret.op = "get_client" /\ ret.branch = "tie" /\ ret.tie = r.tie
              THEN Append(Tail(run), r.id)
              ELSE <<r.id>>

get_client ==
    /\ IF DOMAIN clients = {}
       THEN /\ ret' = Selected("ok", None, None, "empty", {})
            /\ index' = index
       ELSE IF KeyErr
       THEN /\ ret' = Selected("KeyError", None, None, "raise", {})
            /\ index' = index
       ELSE LET av == available
                tp == top(av)
                top_ids == Range(tp)
                n == Len(rotation_order)
            IN  IF Len(av) > 0 /\ Len(tp) = 1
                THEN /\ ret' = Selected("ok", tp[1], clients[tp[1]].client, "unique", top_ids)
                     /\ index' = index
                ELSE IF Len(av) > 0 /\ Hits(top_ids) # {}
                THEN LET k == FirstHit(top_ids)
                         cid == rotation_order[AdvanceBy(index, n, k) + 1]
                     IN  /\ ret' = Selected("ok", cid, clients[cid].client, "tie", top_ids)
                         /\ index' = AdvanceBy(index, n, k + 1)
                ELSE /\ ret' = Selected("ok", soonest, None, "soonest", {})
                     /\ index' = IF Len(av) > 0 THEN AdvanceBy(index, n, n) ELSE index
    /\ run' = Extend(ret')
    /\ UNCHANGED <<clients, client_keys, rotation_order, now>>

(* -------------------------- outcome reporting ------------------------- *)
RECURSIVE SumOver(_, _)
SumOver(f, S) ==
    IF S = {} THEN 0
    ELSE LET c == CHOOSE x \in S : TRUE IN f[c] + SumOver(f, S \ {c})

TotalRequests == SumOver([c \in DOMAIN clients |-> clients[c].request_count], DOMAIN clients)
TotalFails == SumOver([c \in DOMAIN clients |-> clients[c].fail_count], DOMAIN clients)

mark_success(client_id) ==
    /\ client_id \in DOMAIN clients => TotalRequests < MaxReq
    /\ clients' = IF client_id \in DOMAIN clients
                  THEN [clients EXCEPT ![client_id] = Wrapper_mark_success(@)]
                  ELSE clients
    /\ ret' = Ret("report", "ok")
    /\ run' = << >>
    /\ UNCHANGED <<client_keys, rotation_order, index, now>>

mark_failure_unguarded(client_id) ==
    /\ client_id \in DOMAIN clients => TotalFails < MaxFail
    /\ IF client_id \in DOMAIN clients
       THEN /\ clients' = [clients EXCEPT ![client_id] = Wrapper_mark_failure(@)]
            /\ ret' = Ret("report", "ok")
       ELSE /\ clients' = clients
            /\ ret' = Ret("report", "KeyError")
    /\ run' = << >>
    /\ UNCHANGED <<client_keys, rotation_order, index, now>>

mark_failure(client_id) ==
    /\ client_id \in DOMAIN clients => TotalFails < MaxFail
    /\ clients' = IF client_id \in DOMAIN clients
                  THEN [clients EXCEPT ![client_id] = Wrapper_mark_failure(@)]
                  ELSE clients
    /\ ret' = Ret("report", "ok")
    /\ run' = << >>
    /\ UNCHANGED <<client_keys, rotation_order, index, now>>

(* --------------------------- administration --------------------------- *)
add_client(client_id, client) ==
    /\ Len(rotation_order) < MaxPool
    /\ IF client_id \in DOMAIN clients
       THEN /\ ret' = Ret("admin", "error")
            /\ UNCHANGED <<clients, client_keys, rotation_order>>
       ELSE LET p == AddInternal([clients |-> clients, client_keys |-> client_keys,
                                  rotation_order |-> rotation_order], client_id, client)
            IN  /\ clients' = p.clients
                /\ client_keys' = p.client_keys
                /\ rotation_order' = p.rotation_order
                /\ ret' = Ret("admin", "ok")
    /\ run' = << >>
    /\ UNCHANGED <<index, now>>

ClampNever(i, n) == i

\* if self._index >= len(self._rotation_order): self._index = 0
Clamp(i, n) == IF i >= n THEN 0 ELSE i

remove_client(client_id) ==
    /\ IF client_id \notin DOMAIN clients
       THEN /\ ret' = Ret("admin", "error")
            /\ UNCHANGED <<clients, client_keys, rotation_order, index>>
       ELSE IF Cardinality(DOMAIN clients) <= 1
       THEN /\ ret' = Ret("admin", "error")
            /\ UNCHANGED <<clients, client_keys, rotation_order, index>>
       ELSE /\ clients' = [c \in DOMAIN clients \ {client_id} |-> clients[c]]
            /\ client_keys' = DelKey(client_keys, client_id)
            /\ IF client_id \in Range(rotation_order)
               THEN /\ rotation_order' = RemoveFirst(rotation_order, client_id)
                    /\ index' = Clamp(index, Len(rotation_order'))
                    /\ ret' = Removed
               ELSE /\ ret' = Ret("admin", "ValueError")
                    /\ UNCHANGED <<rotation_order, index>>
    /\ run' = << >>
    /\ UNCHANGED now

enable_client(client_id) ==
    /\ IF client_id \notin DOMAIN clients
       THEN /\ ret' = Ret("admin", "error")
            /\ UNCHANGED clients
       ELSE /\ clients' = [clients EXCEPT ![client_id].enabled = TRUE]
            /\ ret' = Ret("admin", "ok")
    /\ run' = << >>
    /\ UNCHANGED <<client_keys, rotation_order, index, now>>

enabled_count == Cardinality({c \in DOMAIN clients : clients[c].enabled})

disable_client_before_check(client_id) ==
    /\ IF client_id \notin DOMAIN clients
       THEN /\ ret' = Ret("admin", "error")
            /\ UNCHANGED clients
       ELSE /\ clients' = [clients EXCEPT ![client_id].enabled = FALSE]
            /\ ret' = IF enabled_count <= 1 THEN Ret("admin", "error")
                      ELSE Ret("admin", "ok")
    /\ run' = << >>
    /\ UNCHANGED <<client_keys, rotation_order, index, now>>

disable_client(client_id) ==
    /\ IF client_id \notin DOMAIN clients
       THEN /\ ret' = Ret("admin", "error")
            /\ UNCHANGED clients
       ELSE IF enabled_count <= 1
       THEN /\ ret' = Ret("admin", "error")
            /\ UNCHANGED clients
       ELSE /\ clients' = [clients EXCEPT ![client_id].enabled = FALSE]
            /\ ret' = Ret("admin", "ok")
    /\ run' = << >>
    /\ UNCHANGED <<client_keys, rotation_order, index, now>>

reset_client_keeping_weight(client_id) ==
    /\ IF client_id \notin DOMAIN clients
       THEN /\ ret' = Ret("admin", "error")
            /\ UNCHANGED clients
       ELSE /\ clients' = [clients EXCEPT ![client_id].fail_count = 0,
                                          ![client_id].available_after = 0]
            /\ ret' = Ret("admin", "ok")
    /\ run' = << >>
    /\ UNCHANGED <<client_keys, rotation_order, index, now>>

reset_client(client_id) ==
    /\ IF client_id \notin DOMAIN clients
       THEN /\ ret' = Ret("admin", "error")
            /\ UNCHANGED clients
       ELSE /\ clients' = [clients EXCEPT ![client_id].fail_count = 0,
                                          ![client_id].available_after = 0,
                                          ![client_id].weight = DEFAULT_WEIGHT]
            /\ ret' = Ret("admin", "ok")
    /\ run' = << >>
    /\ UNCHANGED <<client_keys, rotation_order, index, now>>

(* -------------------------------- clock ------------------------------- *)
\* time.time() moves on between two pool operations; no operation has just
\* returned then
Tick ==
    /\ now < MaxNow
    /\ now' = now + TickStep
    /\ ret' = NoRet
    /\ run' = << >>
    /\ UNCHANGED <<clients, client_keys, rotation_order, index>>

Next ==
    \/ get_client /\ UNCHANGED hvars
    \/ \E cid \in Ids : mark_success(cid) /\ UNCHANGED hvars
    \/ \E cid \in Ids : mark_failure(cid) /\ UNCHANGED hvars
    \/ \E cid \in Ids : add_client(cid, Client(cid)) /\ UNCHANGED hvars
    \/ \E cid \in Ids : remove_client(cid) /\ UNCHANGED hvars
    \/ \E cid \in Ids : enable_client(cid) /\ UNCHANGED hvars
    \/ \E cid \in Ids : disable_client(cid) /\ UNCHANGED hvars
    \/ \E cid \in Ids : reset_client(cid) /\ UNCHANGED hvars
    \/ Tick /\ UNCHANGED hvars

Spec == Init /\ [][Next]_vars

(* ------------------- selection as a function of the pool -------------- *)
\* get_client applied to pools whose wrappers hold any admissible health
\* fields (weights below DEFAULT_WEIGHT are set on the wrappers directly, as
\* no pool operation lowers a weight)
SelWeights == {DEFAULT_WEIGHT - 2 * WEIGHT_DECAY, DEFAULT_WEIGHT - WEIGHT_RECOVERY, DEFAULT_WEIGHT}

SelWrappers ==
    {[ClientWrapper(Client("a")) EXCEPT !.weight = w, !.enabled = e,
                                        !.available_after = t,
                                        !.fail_count = IF t = 0 THEN 0 ELSE 1] :
        w \in SelWeights, e \in BOOLEAN, t \in {0, INITIAL_BACKOFF}}

InitSel ==
    /\ rotation_order = <<"a", "b", "c">>
    /\ client_keys = rotation_order
    /\ \E f \in [Ids -> SelWrappers] :
           clients = [c \in Ids |-> [f[c] EXCEPT !.client = Client(c)]]
    /\ index \in 0..(Len(rotation_order) - 1)
    /\ now = 0
    /\ ret = NoRet
    /\ run = << >>
    /\ HandlersIdle

NextSel ==
    \/ get_client /\ UNCHANGED hvars
    \/ \E cid \in Ids : mark_success(cid) /\ UNCHANGED hvars
    \/ Tick /\ UNCHANGED hvars

SpecSel == InitSel /\ [][NextSel]_vars

(* ------------------- health updates on any wrapper -------------------- *)
\* success reports, failure reports and resets applied to pools whose
\* wrappers hold any admissible health fields
NextHealth ==
    \/ \E cid \in Ids : mark_success(cid) /\ UNCHANGED hvars
    \/ \E cid \in Ids : mark_failure(cid) /\ UNCHANGED hvars
    \/ \E cid \in Ids : reset_client(cid) /\ UNCHANGED hvars
    \/ Tick /\ UNCHANGED hvars

SpecHealth == InitSel /\ [][NextHealth]_vars

(* -------------------------- failure streaks --------------------------- *)
StreakIds == {"a", "b"}

\* ClientPool.mark_failure, followed for up to MaxStreak consecutive
\* failures of one handle
mark_failure_streak(client_id) ==
    /\ client_id \in DOMAIN clients => clients[client_id].fail_count < MaxStreak
    /\ clients' = IF client_id \in DOMAIN clients
                  THEN [clients EXCEPT ![client_id] = Wrapper_mark_failure(@)]
                  ELSE clients
    /\ ret' = Ret("report", "ok")
    /\ run' = << >>
    /\ UNCHANGED <<client_keys, rotation_order, index, now>>

InitBackoff ==
    LET p == LoadFromConfig(EmptyPool, <<<<"a", Client("a")>>, <<"b", Client("b")>>>>)
    IN  /\ clients = p.clients
        /\ client_keys = p.client_keys
        /\ rotation_order = p.rotation_order
        /\ index = 0
        /\ now = 0
        /\ ret = NoRet
        /\ run = << >>
        /\ HandlersIdle

NextBackoff ==
    \/ \E cid \in StreakIds : mark_failure_streak(cid) /\ UNCHANGED hvars
    \/ \E cid \in StreakIds : mark_success(cid) /\ UNCHANGED hvars
    \/ Tick /\ UNCHANGED hvars

SpecBackoff == InitBackoff /\ [][NextBackoff]_vars

(* ------------------ search / generate_image handlers ------------------ *)
\* search and generate_image share one control flow: get_client; without a
\* credential get_status and 503; otherwise client.search, mark_success,
\* result extraction, and mark_failure in the except clause

\* the pool method a handler at this point of its code calls next
Calls(p) ==
    CASE p \in {"idle", "done"} -> "get_client"
      [] p = "no_client" -> "get_status"
      [] p = "returned" -> "mark_success"
      [] p = "raised" -> "mark_failure"
      [] OTHER -> ""

InPool == {"get_client", "get_status", "mark_success", "mark_failure"}

\* the holder of the lock once a `with self._lock` block is left, by return
\* or by exception
KeepLock(h) == h

Release(h) == None

\* `with self._lock`: a handler enters a pool method once the lock is free;
\* a request that arrives starts with fresh locals
Acquire(h) ==
    /\ Calls(pc[h]) # ""
    /\ lock = None
    /\ lock' = h
    /\ pc' = [pc EXCEPT ![h] = Calls(pc[h])]
    /\ req' = IF pc[h] \in {"idle", "done"} THEN [req EXCEPT ![h] = NoReq] ELSE req
    /\ UNCHANGED <<clients, client_keys, rotation_order, index, now, ret, run>>

\* client_id, client = pool.get_client(); if client is None: ...
GetClient(h) ==
    /\ pc[h] = "get_client" /\ lock = h
    /\ get_client
    /\ lock' = Release(h)
    /\ req' = [req EXCEPT ![h].id = ret'.id, ![h].client = ret'.client]
    /\ pc' = [pc EXCEPT ![h] = IF ret'.status # "ok" THEN "done"
                               ELSE IF ret'.client = None THEN "no_client"
                               ELSE "search"]

\* status = pool.get_status(); raise HTTPException(503)
GetStatus(h) ==
    /\ pc[h] = "get_status" /\ lock = h
    /\ lock' = Release(h)
    /\ pc' = [pc EXCEPT ![h] = "done"]
    /\ UNCHANGED <<clients, client_keys, rotation_order, index, now, ret, run, req>>

\* response = client.search(...): the external request returns a response
\* or raises
Search(h) ==
    /\ pc[h] = "search"
    /\ \E outcome \in {"returned", "raised"} : pc' = [pc EXCEPT ![h] = outcome]
    /\ req' = [req EXCEPT ![h].searched = TRUE]
    /\ UNCHANGED <<clients, client_keys, rotation_order, index, now, ret, run, lock>>

\* pool.mark_success(client_id)
MarkSuccess(h) ==
    /\ pc[h] = "mark_success" /\ lock = h
    /\ mark_success(req[h].id)
    /\ lock' = Release(h)
    /\ req' = [req EXCEPT ![h].succ = @ + 1]
    /\ pc' = [pc EXCEPT ![h] = "extract"]

\* _extract_clean_result(response) / _extract_image_result(response), inside
\* the try block: returns, or raises on a response of another shape (e.g. a
\* step whose "content" is null)
Extract(h) ==
    /\ pc[h] = "extract"
    /\ \E outcome \in {"done", "raised"} : pc' = [pc EXCEPT ![h] = outcome]
    /\ UNCHANGED <<clients, client_keys, rotation_order, index, now, ret, run, lock, req>>

\* except Exception: pool.mark_failure(client_id); raise HTTPException(500)
MarkFailure(h) ==
    /\ pc[h] = "mark_failure" /\ lock = h
    /\ mark_failure(req[h].id)
    /\ lock' = Release(h)
    /\ req' = [req EXCEPT ![h].fail = @ + 1]
    /\ pc' = [pc EXCEPT ![h] = "done"]

\* an administrative removal between the steps of the handlers
Remove(cid) ==
    /\ lock = None
    /\ remove_client(cid)
    /\ UNCHANGED hvars

ReqIds == {"a", "b"}

ReqConfigs ==
    {<< >>, <<<<"a", Client("a")>>>>, <<<<"a", Client("a")>>, <<"b", Client("b")>>>>}

InitReq ==
    \E tokens \in ReqConfigs :
        LET p == LoadFromConfig(EmptyPool, tokens)
        IN  /\ clients = p.clients
            /\ client_keys = p.client_keys
            /\ rotation_order = p.rotation_order
            /\ index = 0
            /\ now = 0
            /\ ret = NoRet
            /\ run = << >>
            /\ HandlersIdle

NextReq ==
    \/ \E h \in Handlers : Acquire(h)
    \/ \E h \in Handlers : GetClient(h)
    \/ \E h \in Handlers : GetStatus(h)
    \/ \E h \in Handlers : Search(h)
    \/ \E h \in Handlers : MarkSuccess(h)
    \/ \E h \in Handlers : Extract(h)
    \/ \E h \in Handlers : MarkFailure(h)
    \/ \E cid \in ReqIds : Remove(cid)
    \/ Tick /\ UNCHANGED hvars

SpecReq == InitReq /\ [][NextReq]_vars

(* ------------- handlers with removal and re-registration ------------- *)
\* Client(cookies) built by add_client from the tokens of the call: another
\* credential than the one the configuration gave the same id
NewClient(cid) == <<"client", cid, "new">>

\* an administrative add_client between the steps of the handlers
Readd(cid) ==
    /\ lock = None
    /\ add_client(cid, NewClient(cid))
    /\ UNCHANGED hvars

NextGen ==
    \/ NextReq
    \/ \E cid \in ReqIds : Readd(cid)

SpecGen == InitReq /\ [][NextGen]_vars

(* ============================== properties ============================ *)
\* get_client has just returned or raised: clients, rotation_order and now
\* are as they were at the call, index is the cursor after it and ret.start
\* the cursor before it
Returned == ret.op = "get_client"

AnyAvailable == \E c \in DOMAIN clients : is_available(clients[c])

Registered(id) == id \in DOMAIN clients

(* C1: get_client never raises, and its result is (none, none) exactly when
   the pool has no handle, the id and the credential of a registered handle
   exactly when some handle is available, and the id of a registered handle
   with no credential exactly when the pool is non-empty and no handle is
   available. *)
C1_ThreeTiers ==
    Returned =>
        /\ ret.status = "ok"
        /\ (ret.id = None /\ ret.client = None) <=> (DOMAIN clients = {})
        /\ (Registered(ret.id) /\ ret.client # None) <=> AnyAvailable
        /\ (Registered(ret.id) /\ ret.client = None)
               <=> (DOMAIN clients # {} /\ ~AnyAvailable)
        /\ (Registered(ret.id) /\ ret.client # None)
               => ret.client = clients[ret.id].client

(* C2: whenever get_client returns a credential, the handle it belongs to
   is registered, enabled and out of cooldown (now >= available_after) at
   that moment. *)
C2_CredentialOnlyIfAvailable ==
    (Returned /\ ret.client # None) =>
        /\ Registered(ret.id)
        /\ ret.client = clients[ret.id].client
        /\ clients[ret.id].enabled
        /\ now >= clients[ret.id].available_after

\* a credential is returned for a handle whose cooldown has expired, while
\* another handle is disabled
C2_Witness ==
    /\ Returned /\ ret.client # None /\ Registered(ret.id)
    /\ clients[ret.id].available_after > 0
    /\ \E c \in DOMAIN clients : ~clients[c].enabled

(* C3: in every state of a constructed pool at least one registered handle
   is enabled. *)
C3_SomeEnabled ==
    DOMAIN clients # {} => \E c \in DOMAIN clients : clients[c].enabled

(* C4: the pool holds at least one handle after construction and after any
   sequence of operations. *)
C4_NeverEmpty == Cardinality(DOMAIN clients) >= 1

(* C5: for a registered id, disable(id) fails (LastEnabled) exactly when
   performing it would leave no enabled handle, and otherwise succeeds and
   sets that handle's enabled flag to false. *)
C5_DisableLastEnabledOnly ==
    [][\A cid \in Ids :
          (disable_client(cid) /\ Registered(cid)) =>
              IF {c \in DOMAIN clients : clients[c].enabled} \ {cid} = {}
              THEN ret'.status = "error" /\ clients' = clients
              ELSE ret'.status = "ok" /\ ~clients'[cid].enabled]_vars

\* the positions of rotation_order, counted from 0, and the id at one
At(i) == rotation_order[i + 1]

\* y is the first member of the set tie met after some occurrence of x, going
\* round rotation_order
FollowsInRotation(x, y, tie) ==
    LET n == Len(rotation_order)
    IN  \E p \in 0..(n - 1) :
            /\ At(p) = x
            /\ \E k \in 1..n :
                   /\ At((p + k) % n) = y
                   /\ \A j \in 1..(k - 1) : At((p + j) % n) \notin tie

(* C6: with an unchanged tie set of k >= 2 handles, any k consecutive
   get_client calls return k distinct handles, each the next tied handle in
   rotation order after the one returned before. *)
C6_TieRotation ==
    (Returned /\ ret.branch = "tie" /\ Cardinality(ret.tie) >= 2) =>
        LET k == Cardinality(ret.tie)
            n == Len(run)
        IN  /\ n >= k => Cardinality({run[i] : i \in (n - k + 1)..n}) = k
            /\ \A i \in 1..(n - 1) : FollowsInRotation(run[i], run[i + 1], ret.tie)

(* C7, as stated: a get_client call that takes the tie-breaking branch (two
   or more available handles share the maximum weight) leaves the cursor at
   (cursor before + 1) mod len(rotation_order). *)
C7_AdvancesOnce ==
    (Returned /\ ret.branch = "tie" /\ Cardinality(ret.tie) >= 2) =>
        index = (ret.start + 1) % Len(rotation_order)

(* C7, amended: a get_client call that takes the tie-breaking branch moves
   the cursor past every entry it passes over: the entries from the cursor
   on that are not in the tie set, and the first one that is, which it
   returns.  The cursor after the call is the position after the returned
   entry, modulo len(rotation_order); it advances between 1 and
   len(rotation_order) positions. *)
C7_AdvancesPastReturned ==
    (Returned /\ ret.branch = "tie") =>
        LET n == Len(rotation_order)
        IN  \E k \in 0..(n - 1) :
                /\ \A j \in 0..(k - 1) : At((ret.start + j) % n) \notin ret.tie
                /\ At((ret.start + k) % n) = ret.id
                /\ ret.id \in ret.tie
                /\ index = (ret.start + k + 1) % n

\* a tie-breaking call that passed over an entry outside the tie set
C7_Witness ==
    /\ Returned /\ ret.branch = "tie" /\ Cardinality(ret.tie) >= 2
    /\ At(ret.start) \notin ret.tie
    /\ index # (ret.start + 1) % Len(rotation_order)

(* C8: whenever get_client returns a credential, the returned handle's
   weight is the maximum weight over the available handles. *)
C8_MaxWeight ==
    (Returned /\ ret.client # None) =>
        /\ Registered(ret.id)
        /\ is_available(clients[ret.id])
        /\ \A c \in DOMAIN clients :
               is_available(clients[c]) => clients[c].weight <= clients[ret.id].weight

\* the handle of weight DEFAULT_WEIGHT is returned while a lighter handle is
\* available too
C8_Witness ==
    /\ Returned /\ ret.client # None /\ Registered(ret.id)
    /\ clients[ret.id].weight = DEFAULT_WEIGHT
    /\ \E c \in DOMAIN clients :
           is_available(clients[c]) /\ clients[c].weight < DEFAULT_WEIGHT

(* C9: when get_client returns from a non-empty pool with no available
   handle, it returns no credential and the id of a registered handle whose
   available_after no registered handle undercuts. *)
C9_Soonest ==
    (Returned /\ ret.status = "ok" /\ DOMAIN clients # {} /\ ~AnyAvailable) =>
        /\ ret.client = None
        /\ Registered(ret.id)
        /\ \A c \in DOMAIN clients :
               clients[ret.id].available_after <= clients[c].available_after

\* no handle is available, two registered handles differ in available_after
\* and the one with the smaller deadline is named
C9_Witness ==
    /\ Returned /\ ret.status = "ok" /\ ~AnyAvailable /\ Registered(ret.id)
    /\ ret.client = None
    /\ \E c \in DOMAIN clients :
           clients[ret.id].available_after < clients[c].available_after

(* C10: in every state with a non-empty pool the cursor is a valid index:
   0 <= index < len(rotation_order). *)
C10_CursorInBounds ==
    DOMAIN clients # {} => (0 <= index /\ index < Len(rotation_order))

\* a removal has just shortened rotation_order to or below the cursor
C10_Witness ==
    /\ ret.branch = "removed"
    /\ ret.start >= Len(rotation_order)
    /\ index = 0

(* C11: rotation_order holds exactly the ids that are keys of clients, each
   exactly once. *)
C11_RotationIsKeys ==
    /\ Range(rotation_order) = DOMAIN clients
    /\ Len(rotation_order) = Cardinality(DOMAIN clients)

(* C15: an administrative call that returns a failure outcome leaves
   clients (every field of every handle), the key order, rotation_order and
   the cursor as they were. *)
C15_FailedAdminChangesNothing ==
    [][(ret'.op = "admin" /\ ret'.status = "error") =>
          UNCHANGED <<clients, client_keys, rotation_order, index>>]_vars

\* an administrative call has just failed on a pool that is no longer in its
\* constructed state
C15_Witness ==
    /\ ret.op = "admin" /\ ret.status = "error"
    /\ index > 0
    /\ \E c \in DOMAIN clients : ~clients[c].enabled

(* C16: mark_success and mark_failure with an id that is not registered
   raise nothing and leave the whole pool state unchanged. *)
C16_UnknownReportIgnored ==
    [][\A cid \in Ids :
          (~Registered(cid) /\ (mark_success(cid) \/ mark_failure(cid))) =>
              /\ ret'.status = "ok"
              /\ UNCHANGED <<clients, client_keys, rotation_order, index, now>>]_vars

\* a report has just returned and no registered handle carries a trace of
\* it: it named an id that is not registered (here: one that was removed)
C16_Witness ==
    /\ ret.op = "report" /\ ret.status = "ok"
    /\ DOMAIN clients # {}
    /\ Range(rotation_order) # DOMAIN clients
    /\ \A c \in DOMAIN clients :
           clients[c].request_count = 0 /\ clients[c].fail_count = 0

\* the available handles of maximum weight
TopHandles ==
    {c \in DOMAIN clients :
        /\ is_available(clients[c])
        /\ \A d \in DOMAIN clients :
               is_available(clients[d]) => clients[d].weight <= clients[c].weight}

(* C20: get_client changes no handle and no membership; it leaves the
   cursor alone when the pool is empty, when exactly one available handle
   has the maximum weight and when no handle is available, and moves it only
   in a call that takes the tie-breaking branch. *)
C20_GetClientFrame ==
    [][ret'.op = "get_client" =>
          /\ UNCHANGED <<clients, client_keys, rotation_order>>
          /\ Cardinality(TopHandles) <= 1 => index' = index
          /\ index' # index => ret'.branch = "tie"]_vars

\* the backoff the n-th consecutive failure is to compute
NthBackoff(n) == IF n >= 7 THEN 3600 ELSE 60 * 2^(n - 1)

(* C12: the n-th consecutive failure report on a handle sets fail_count to
   n and available_after to now + min(3600, 60 * 2^(n-1)): 60, 120, 240,
   ... and 3600 from the 7th failure on; available_after never decreases
   along the failures. *)
C12_Backoff ==
    [][\A cid \in StreakIds :
          (mark_failure_streak(cid) /\ Registered(cid)) =>
              LET n == clients[cid].fail_count + 1
              IN  /\ clients'[cid].fail_count = n
                  /\ clients'[cid].available_after = now + NthBackoff(n)
                  /\ clients'[cid].available_after >= clients[cid].available_after]_vars

\* the eighth consecutive failure of a handle has just been reported, after
\* the clock moved, and its cooldown is the capped one
C12_Witness ==
    /\ ret.op = "report"
    /\ now > 0
    /\ \E c \in DOMAIN clients :
           clients[c].fail_count = 8 /\ clients[c].available_after = now + MAX_BACKOFF

(* C13: a success report on a registered handle leaves it with
   fail_count = 0, available_after = 0, request_count one higher and
   weight = min(100, previous weight + 5); its enabled flag is unchanged. *)
C13_SuccessEffect ==
    [][\A cid \in Ids :
          (mark_success(cid) /\ Registered(cid)) =>
              LET w == clients[cid]
                  w2 == clients'[cid]
              IN  /\ w2.fail_count = 0
                  /\ w2.available_after = 0
                  /\ w2.request_count = w.request_count + 1
                  /\ w2.weight = IF w.weight + 5 < 100 THEN w.weight + 5 ELSE 100
                  /\ w2.enabled = w.enabled]_vars

\* a success has just been reported on a disabled handle of weight 80
C13_Witness ==
    /\ ret.op = "report"
    /\ \E c \in DOMAIN clients :
           /\ clients[c].request_count = 1
           /\ clients[c].weight = DEFAULT_WEIGHT - 2 * WEIGHT_DECAY + WEIGHT_RECOVERY
           /\ ~clients[c].enabled

(* C14: reset_client on a registered handle sets its weight to 100, its
   fail_count to 0 and its available_after to 0, and leaves its enabled
   flag, its request_count, its credential, every other handle, the
   membership, rotation_order and the cursor unchanged. *)
C14_ResetEffect ==
    [][\A cid \in Ids :
          (reset_client(cid) /\ Registered(cid)) =>
              LET w == clients[cid]
                  w2 == clients'[cid]
              IN  /\ w2.weight = 100 /\ w2.fail_count = 0 /\ w2.available_after = 0
                  /\ w2.enabled = w.enabled
                  /\ w2.request_count = w.request_count
                  /\ w2.client = w.client
                  /\ DOMAIN clients' = DOMAIN clients
                  /\ \A d \in DOMAIN clients \ {cid} : clients'[d] = clients[d]
                  /\ UNCHANGED <<client_keys, rotation_order, index>>]_vars

\* a reset has just succeeded in a pool that holds a disabled handle with
\* one served request and full health
C14_Witness ==
    /\ ret.op = "admin" /\ ret.status = "ok"
    /\ \E c \in DOMAIN clients :
           /\ ~clients[c].enabled
           /\ clients[c].request_count = 1
           /\ clients[c].weight = DEFAULT_WEIGHT
           /\ clients[c].fail_count = 0
           /\ clients[c].available_after = 0

(* C18: every handle's weight lies between MIN_WEIGHT (10) and
   DEFAULT_WEIGHT (100). *)
C18_WeightInRange ==
    \A c \in DOMAIN clients :
        MIN_WEIGHT <= clients[c].weight /\ clients[c].weight <= DEFAULT_WEIGHT

\* a success has just been reported in a pool that holds a handle at full
\* weight with a served request next to one below full weight
C18_Witness ==
    /\ ret.op = "report"
    /\ \E c, d \in DOMAIN clients :
           /\ clients[c].request_count = 1
           /\ clients[c].weight = DEFAULT_WEIGHT
           /\ clients[d].weight < DEFAULT_WEIGHT

(* C17: the pool lock is held only inside a single pool operation: whoever
   holds it is inside get_client, get_status, mark_success or mark_failure,
   so no handler holds it while its external request (client.search) is
   executing, and get_client has released it on each of its return paths. *)
C17_LockOnlyInsidePoolOperation ==
    /\ \A h \in Handlers : lock = h => pc[h] \in InPool
    /\ \A h \in Handlers : pc[h] \in {"search", "no_client", "done"} => lock # h

\* one handler is in its external request while the other is inside
\* get_client, holding the lock
C17_Witness ==
    \E h, g \in Handlers :
        /\ pc[h] = "search"
        /\ pc[g] = "get_client"
        /\ lock = g

(* C19: a request that was handed a credential reports exactly one outcome
   for that id, success or failure, never both and never neither; a request
   that was handed no credential reports nothing and does not invoke the
   external request. *)
C19_ExactlyOneReport ==
    \A h \in Handlers :
        pc[h] = "done" =>
            IF req[h].client # None
            THEN req[h].succ + req[h].fail = 1
            ELSE req[h].succ = 0 /\ req[h].fail = 0 /\ ~req[h].searched

\* the handles get_client finds available
AvailableHandles == {c \in DOMAIN clients : is_available(clients[c])}

(* C22: every registered handle has weight DEFAULT_WEIGHT in every state,
   so a get_client call with two or more available handles takes the
   round-robin branch, and the unique-maximum branch is taken only when
   exactly one handle is available. *)
C22_AlwaysTied ==
    /\ \A c \in DOMAIN clients : clients[c].weight = DEFAULT_WEIGHT
    /\ Returned =>
           /\ Cardinality(AvailableHandles) >= 2 => ret.branch = "tie"
           /\ ret.branch = "unique" => Cardinality(AvailableHandles) = 1

(* C23: when no handle is available, the id get_client returns designates
   an enabled handle; a disabled handle is never the id reported. *)
C23_SoonestIsEnabled ==
    (Returned /\ ret.status = "ok" /\ AvailableHandles = {} /\ Registered(ret.id))
        => clients[ret.id].enabled

\* the enabled handles
EnabledHandles == {c \in DOMAIN clients : clients[c].enabled}

(* C21: a cooldown expires by the clock alone: an enabled handle whose
   available_after the clock has reached is available, and when it is the
   only enabled handle a get_client call at that time returns its id and
   its credential. *)
C21_ExpiredCooldownSelected ==
    \A c \in DOMAIN clients :
        (clients[c].enabled /\ clients[c].available_after > 0
                            /\ now >= clients[c].available_after) =>
            /\ is_available(clients[c])
            /\ (Returned /\ EnabledHandles = {c}) =>
                   /\ ret.status = "ok"
                   /\ ret.id = c
                   /\ ret.client = clients[c].client

(* C24: an outcome report changes only the handle instance its get_client
   call returned: a report that arrives after that id was removed and added
   again with a new credential leaves the newly added handle's fail_count,
   available_after, weight and request_count as they were. *)
C24_LateReportSparesNewHandle ==
    [][\A h \in Handlers :
          (/\ pc[h] \in {"mark_success", "mark_failure"}
           /\ pc'[h] # pc[h]
           /\ Registered(req[h].id)
           /\ clients[req[h].id].client # req[h].client) =>
              clients'[req[h].id] = clients[req[h].id]]_vars

====
